---- MODULE Spec2Model ----
(***************************************************************************)
(* Request/reply correlation layer of messaging.js: initMessaging,         *)
(* sendMessageOneWay, sendMessageReply and sendMessageRequest, together    *)
(* with the events the transport and the timers deliver to the callbacks   *)
(* those functions install.                                                *)
(***************************************************************************)
EXTENDS Integers, Sequences, FiniteSets, TLC

\* ---------------------------------------------------------------- bounds

\* Number of sendMessageRequest / sendMessageOneWay calls in a behaviour.
MaxCalls == 2


\* ------------------------------------------------------- values and inputs

\* null / undefined
NULL == "null"

\* Objects a caller can pass to initMessaging.
Listeners == {"L1"}
Emitters == {"E1"}
Callbacks == {"cb1"}

\* Date.now(): the calls of a behaviour fall into the same millisecond, the
\* case in which seed alone tells their identifiers apart.
Timestamps == {1}

Actions == {"ping"}
\* Data sent with a request.
Data == {"d1"}
\* Data sent with a reply.
Payloads == {"p1", "p2"}

\* The timeout argument: absent (undefined), or a number.
Absent == [given |-> FALSE, val |-> 0]
Num(v) == [given |-> TRUE, val |-> v]
TimeoutArgs == {Absent, Num(0), Num(-1), Num(5)}

\* What emitterObj.send does when it is invoked with a request: it returns,
\* it throws, or the transport delivers the reply (with the given payload)
\* on the listener before send returns.
SendBehaviours ==
    {[kind |-> "ok", p |-> NULL], [kind |-> "throw", p |-> NULL]}
        \cup {[kind |-> "reply", p |-> p] : p \in Payloads}

\* Inbound event handles: none, one without a reply method, one with it.
Events == {NULL, "evPlain", "evReply"}

\* ---------------------------------------------------------------- state

VARIABLES
    seed,         \* let seed
    emitterObj,   \* let emitterObj
    listenerObj,  \* let listenerObj
    subs,         \* handlers subscribed to 'message-request': <<listener, callback>>
    reqs,         \* one record per sendMessageRequest call: its message, its
                  \* closure (timer), its listener, its timer and its promise
    sent,         \* the invocations of emitterObj.send('message-request', message)
    replied,      \* what the last step handed over as a reply, and over which path
    cbCalls,      \* the invocations of the callback of initMessaging the last step made
    last          \* the last operation or event, the arguments it read and its
                  \* result (the exception it threw, or "ok")

vars == <<seed, emitterObj, listenerObj, subs, reqs, sent, replied, cbCalls, last>>

\* ------------------------------------------------------ message identifier

Digit(d) == CASE d = 0 -> "0" [] d = 1 -> "1" [] d = 2 -> "2" [] d = 3 -> "3"
              [] d = 4 -> "4" [] d = 5 -> "5" [] d = 6 -> "6" [] d = 7 -> "7"
              [] d = 8 -> "8" [] d = 9 -> "9"

\* String(n) for a non-negative integer, one character per element.
RECURSIVE Digits(_)
Digits(n) == IF n < 10 THEN <<Digit(n)>> ELSE Digits(n \div 10) \o <<Digit(n % 10)>>

\* `msg-${seed}-${Date.now()}`
MsgId(s, now) == <<"m", "s", "g", "-">> \o Digits(s) \o <<"-">> \o Digits(now)

SeedStuck(s) == s

\* seed++
NextSeed(s) == s + 1

\* An identifier no request of this process carries.
ForeignId == <<"x">>

\* ------------------------------------------------------- timeout handling

Truthy(timeout) == timeout.given /\ timeout.val # 0

OneWayNever(timeout) == FALSE

InfiniteNever(timeout) == FALSE

\* const oneWay = timeout === 0
OneWay(timeout) == timeout.given /\ timeout.val = 0

\* const infinite = timeout && timeout < 0
Infinite(timeout) == Truthy(timeout) /\ timeout.val < 0

DefaultTimeout == 2000

EffectiveTimeoutNoDefault(timeout) == timeout.val

\* if (!oneWay && !infinite && !timeout) timeout = timeout || 2000
EffectiveTimeout(timeout) ==
    IF ~OneWay(timeout) /\ ~Infinite(timeout) /\ ~Truthy(timeout)
    THEN DefaultTimeout
    ELSE timeout.val

\* ------------------------------------------------------------- promises

\* A promise settles once: resolve, reject and a throw of the executor are
\* ignored once it is settled.
Settle(q, state, v) ==
    IF q.promise = "pending" THEN [q EXCEPT !.promise = state, !.value = v] ELSE q

\* resolve(reply)
Resolve(q, p) == Settle([q EXCEPT !.resolveCalls = @ + 1], "resolved", p)

\* reject('Timed out')
RejectTimedOut(q) == Settle([q EXCEPT !.rejectCalls = @ + 1], "rejected", "Timed out")

\* an exception thrown inside the executor rejects the promise with it
ExecutorThrow(q, err) == Settle(q, "rejected", err)

\* ------------------------------------------------ timers and the listener

ClearTimeoutLost(q) == q

ArmTimerMissing(q) == q

\* timer = setTimeout(..., timeout)
ArmTimer(q) == [q EXCEPT !.timerVar = "handle", !.timerState = "armed"]

\* clearTimeout(timer): the closure variable keeps the handle
ClearTimeout(q) ==
    [q EXCEPT !.timerState = IF @ = "armed" THEN "cleared" ELSE @]

OnceKept(q) == q

RegisterMissing(q) == q

\* listenerObj.once(message.id, handler): registration
Register(q) == [q EXCEPT !.listening = TRUE]

\* once(): the wrapper removes the handler before it calls it
OnceRemove(q) == [q EXCEPT !.listening = FALSE]

\* The handler of listenerObj.once(message.id, (_, reply) => ...)
ReplyHandler(q, p) ==
    IF ~q.infinite /\ q.timerVar = NULL
    THEN [q EXCEPT !.late = TRUE]
    ELSE Resolve(IF q.timerVar # NULL THEN ClearTimeout(q) ELSE q, p)

EmitBroadcast(rs, id, p) ==
    [i \in DOMAIN rs |->
        IF rs[i].listening THEN ReplyHandler(OnceRemove(rs[i]), p) ELSE rs[i]]

\* The transport emits (event, p) on channel id of the listener: every
\* handler registered under that name runs.
Emit(rs, id, p) ==
    [i \in DOMAIN rs |->
        IF rs[i].listening /\ rs[i].id = id
        THEN ReplyHandler(OnceRemove(rs[i]), p)
        ELSE rs[i]]

\* listenerObj.removeAllListeners(id)
RemoveAllListeners(rs, id) ==
    [i \in DOMAIN rs |->
        IF rs[i].id = id THEN [rs[i] EXCEPT !.listening = FALSE] ELSE rs[i]]

\* ------------------------------------------------------------------ Init

NoLast == [op |-> "none", r |-> 0, id |-> <<>>, args |-> <<>>, result |-> "none"]

NoReply == [via |-> "none", id |-> <<>>, data |-> NULL]

\* A step that neither hands over a reply nor invokes the callback.
Quiet == replied' = NoReply /\ cbCalls' = <<>>

Init ==
    /\ seed = 1
    /\ emitterObj = NULL
    /\ listenerObj = NULL
    /\ subs = <<>>
    /\ reqs = <<>>
    /\ sent = <<>>
    /\ replied = NoReply
    /\ cbCalls = <<>>
    /\ last = NoLast

\* --------------------------------------------------------- initMessaging

NeverInitialized == FALSE

InvalidParametersAfterDefault(listener, emitter, callback) ==
    emitter = NULL \/ callback = NULL

\* if (emitterObj) throw new Error('Already initialized')
AlreadyInitialized == emitterObj # NULL

\* emitter = emitter || listener
DefaultEmitter(listener, emitter) == IF emitter # NULL THEN emitter ELSE listener

\* if (!listener || !callback) throw new Error('Invalid parameters')
InvalidParameters(listener, emitter, callback) == listener = NULL \/ callback = NULL

InitMessaging(listener, emitter, callback) ==
    LET result == IF AlreadyInitialized THEN "AlreadyInitialized"
                  ELSE IF InvalidParameters(listener, DefaultEmitter(listener, emitter), callback)
                       THEN "InvalidParameters"
                       ELSE "ok"
    IN  /\ last' = [op |-> "init", r |-> 0, id |-> <<>>,
                    args |-> IF AlreadyInitialized THEN <<>>
                             ELSE <<listener, emitter, callback>>,
                    result |-> result]
        /\ IF result = "ok"
           THEN /\ listenerObj' = listener
                /\ emitterObj' = DefaultEmitter(listener, emitter)
                /\ subs' = Append(subs, <<listener, callback>>)
           ELSE UNCHANGED <<listenerObj, emitterObj, subs>>
        /\ Quiet
        /\ UNCHANGED <<seed, reqs, sent>>

\* ----------------------------------------------------- sendMessageRequest

NewRequest(action, data, timeout, now) ==
    [id |-> MsgId(seed, now), action |-> action, data |-> data,
     arg |-> timeout, oneWay |-> OneWay(timeout), infinite |-> Infinite(timeout),
     timeout |-> EffectiveTimeout(timeout),
     timerVar |-> NULL, timerState |-> "none", listening |-> FALSE, late |-> FALSE,
     promise |-> "pending", value |-> NULL, resolveCalls |-> 0, rejectCalls |-> 0]

\* The executor of the promise, up to the call of emitterObj.send.
BeforeSend(q) ==
    LET q1 == IF ~q.oneWay /\ ~q.infinite THEN ArmTimer(q) ELSE q
    IN  IF q.oneWay THEN q1
        ELSE IF listenerObj = NULL THEN ExecutorThrow(q1, "TypeError")
        ELSE Register(q1)

SendMessageRequest(action, data, timeout, now, beh) ==
    LET q  == BeforeSend(NewRequest(action, data, timeout, now))
        rs == Append(reqs, q)
        n  == Len(rs)
    IN  /\ Len(reqs) < MaxCalls
        /\ seed' = NextSeed(seed)
        /\ IF q.promise # "pending"
           THEN /\ reqs' = rs
                /\ UNCHANGED sent
           ELSE IF emitterObj = NULL
           THEN /\ reqs' = [rs EXCEPT ![n] = ExecutorThrow(q, "TypeError")]
                /\ UNCHANGED sent
           ELSE /\ sent' = Append(sent, [channel |-> "message-request", id |-> q.id,
                                         action |-> action, data |-> data])
                /\ reqs' = CASE beh.kind = "ok" -> rs
                             [] beh.kind = "throw" ->
                                    [rs EXCEPT ![n] = ExecutorThrow(q, "SendError")]
                             [] beh.kind = "reply" -> Emit(rs, q.id, beh.p)
        /\ last' = [op |-> "send", r |-> n, id |-> q.id,
                    args |-> IF emitterObj # NULL /\ q.promise = "pending"
                                  /\ beh.kind = "reply"
                             THEN <<beh.p>> ELSE <<>>,
                    result |-> IF emitterObj = NULL \/ q.promise # "pending"
                               THEN "TypeError" ELSE beh.kind]
        /\ Quiet
        /\ UNCHANGED <<emitterObj, listenerObj, subs>>

\* sendMessageOneWay(action, data) == sendMessageRequest(action, data, 0)
SendMessageOneWay(action, data, now, beh) ==
    SendMessageRequest(action, data, Num(0), now, beh)

\* ----------------------------------------------------------------- events

KnownIds == {reqs[i].id : i \in DOMAIN reqs} \cup {ForeignId}

\* The transport delivers a reply tagged id to the listener.
DeliverReply(id, p) ==
    /\ reqs' = Emit(reqs, id, p)
    /\ last' = [op |-> "deliver", r |-> 0, id |-> id, args |-> <<p>>, result |-> "ok"]
    /\ Quiet
    /\ UNCHANGED <<seed, emitterObj, listenerObj, subs, sent>>

\* The callback given to setTimeout runs.
TimerFire(r) ==
    /\ r \in DOMAIN reqs
    /\ reqs[r].timerState = "armed"
    /\ LET fired == [reqs EXCEPT ![r].timerVar = NULL, ![r].timerState = "fired"]
       IN  IF listenerObj = NULL
           THEN reqs' = fired
           ELSE reqs' = [RemoveAllListeners(fired, reqs[r].id) EXCEPT
                             ![r] = RejectTimedOut(@)]
    /\ last' = [op |-> "timer", r |-> r, id |-> reqs[r].id, args |-> <<>>,
                result |-> IF listenerObj = NULL THEN "TypeError" ELSE "ok"]
    /\ Quiet
    /\ UNCHANGED <<seed, emitterObj, listenerObj, subs, sent>>

\* The transport delivers a request on 'message-request' of a listener.
InboundRequest(listener, event, action, data, id) ==
    /\ cbCalls' = [i \in 1..Len(SelectSeq(subs, LAMBDA s: s[1] = listener)) |->
                     [callback |-> SelectSeq(subs, LAMBDA s: s[1] = listener)[i][2],
                      action |-> action, data |-> data, event |-> event, id |-> id]]
    /\ last' = [op |-> "inbound", r |-> 0, id |-> id,
                args |-> <<listener, event, action, data>>, result |-> "ok"]
    /\ replied' = NoReply
    /\ UNCHANGED <<seed, emitterObj, listenerObj, subs, reqs, sent>>

\* ------------------------------------------------------- sendMessageReply

HasReplyAnyEvent(event) == event # NULL

\* event && event.reply
HasReply(event) == event = "evReply"

SendMessageReply(messageId, data, event) ==
    /\ replied' = IF HasReply(event)
                  THEN [via |-> "event", id |-> messageId, data |-> data]
                  ELSE IF emitterObj # NULL
                  THEN [via |-> "emitter", id |-> messageId, data |-> data]
                  ELSE NoReply
    /\ last' = [op |-> "reply", r |-> 0, id |-> messageId, args |-> <<data, event>>,
                result |-> IF ~HasReply(event) /\ emitterObj = NULL
                           THEN "TypeError" ELSE "ok"]
    /\ cbCalls' = <<>>
    /\ UNCHANGED <<seed, emitterObj, listenerObj, subs, reqs, sent>>

\* ------------------------------------------------------------------ Next

DoInit ==
    \E l \in Listeners \cup {NULL}, e \in Emitters \cup {NULL}, c \in Callbacks \cup {NULL} :
        InitMessaging(l, e, c)

DoSendRequest ==
    \E a \in Actions, d \in Data, t \in TimeoutArgs,
       now \in Timestamps, beh \in SendBehaviours :
        SendMessageRequest(a, d, t, now, beh)

DoSendOneWay ==
    \E a \in Actions, d \in Data, now \in Timestamps, beh \in SendBehaviours :
        SendMessageOneWay(a, d, now, beh)

DoDeliverReply == \E id \in KnownIds, p \in Payloads : DeliverReply(id, p)

DoTimerFire == \E r \in DOMAIN reqs : TimerFire(r)

DoInboundRequest ==
    \E l \in Listeners, ev \in Events \ {NULL}, a \in Actions, d \in Data :
        InboundRequest(l, ev, a, d, ForeignId)

DoSendMessageReply ==
    \E d \in Data, ev \in Events : SendMessageReply(ForeignId, d, ev)

Next ==
    \/ DoInit
    \/ DoSendRequest
    \/ DoSendOneWay
    \/ DoDeliverReply
    \/ DoTimerFire
    \/ DoInboundRequest
    \/ DoSendMessageReply

Spec == Init /\ [][Next]_vars

\* The use the interface asks for: initMessaging has succeeded before
\* anything is sent, a reply included.
SendRequestInitialized == emitterObj # NULL /\ DoSendRequest

SendOneWayInitialized == emitterObj # NULL /\ DoSendOneWay

ReplyInitialized == emitterObj # NULL /\ DoSendMessageReply

NextInitialized ==
    \/ DoInit
    \/ SendRequestInitialized
    \/ SendOneWayInitialized
    \/ DoDeliverReply
    \/ DoTimerFire
    \/ DoInboundRequest
    \/ ReplyInitialized

SpecInitialized == Init /\ [][NextInitialized]_vars

\* Timers run: the callback of an armed timer is eventually called.
TimersFire == \A r \in 1..MaxCalls : WF_vars(TimerFire(r))

SpecLive == SpecInitialized /\ TimersFire

\* ---------------------------------------------------------------- claims

\* The invocations of emitterObj.send('message-request', message) in s that
\* carry the message of request q.
Transmissions(s, q) ==
    Cardinality({i \in DOMAIN s :
        s[i] = [channel |-> "message-request", id |-> q.id,
                action |-> q.action, data |-> q.data]})

\* r is a request of the next state that the step created.
Created(r) == r \notin DOMAIN reqs

\* C1: the completion of a request settles at most once. Of resolve(reply)
\* and reject('Timed out') at most one call is ever made for a request, and
\* once its promise is settled neither its state nor its value changes.
C1_SettlesAtMostOnce ==
    [][\A r \in DOMAIN reqs' :
          /\ reqs'[r].resolveCalls + reqs'[r].rejectCalls <= 1
          /\ (~Created(r) /\ reqs[r].promise # "pending") =>
                /\ reqs'[r].promise = reqs[r].promise
                /\ reqs'[r].value = reqs[r].value]_vars

\* A reply won the race against an armed timer.
C1_Witness ==
    \E r \in DOMAIN reqs :
        /\ reqs[r].promise = "resolved"
        /\ reqs[r].timerState = "cleared"
        /\ reqs[r].resolveCalls = 1

\* C2: when the timer of a request with a finite wait has fired (no reply
\* came before it), the completion is rejected with 'Timed out', by exactly
\* one call of reject, and no listener is registered under its identifier.
C2_TimedOutOnExpiry ==
    \A r \in DOMAIN reqs :
        reqs[r].timerState = "fired" =>
            /\ reqs[r].promise = "rejected"
            /\ reqs[r].value = "Timed out"
            /\ reqs[r].rejectCalls = 1
            /\ \A k \in DOMAIN reqs : reqs[k].id = reqs[r].id => ~reqs[k].listening

Negative(timeout) == timeout.given /\ timeout.val < 0

\* C3 as stated: a request with timeout < 0 has no timer, is never rejected,
\* and settles only by resolving.
C3_SettlesOnlyByReply ==
    \A r \in DOMAIN reqs :
        Negative(reqs[r].arg) =>
            /\ reqs[r].timerState = "none"
            /\ reqs[r].promise \in {"pending", "resolved"}

\* C3 amended: a request with timeout < 0 never has a timer and is never
\* rejected with 'Timed out'. It resolves only on a reply tagged with its
\* identifier, with the payload of that reply, and it is rejected only
\* inside its own call, by what the call threw.
C3_NeverTimesOut ==
    [][\A r \in DOMAIN reqs' :
          Negative(reqs'[r].arg) =>
            /\ reqs'[r].timerState = "none"
            /\ reqs'[r].timerVar = NULL
            /\ reqs'[r].rejectCalls = 0
            /\ reqs'[r].value # "Timed out"
            /\ (reqs'[r].promise = "resolved" /\ (Created(r) \/ reqs[r].promise = "pending")) =>
                  \/ /\ last'.op = "deliver"
                     /\ last'.id = reqs'[r].id
                     /\ last'.args = <<reqs'[r].value>>
                  \/ /\ last'.op = "send"
                     /\ last'.r = r
                     /\ last'.result = "reply"
            /\ reqs'[r].promise = "rejected" =>
                  IF Created(r)
                  THEN last'.op = "send" /\ last'.r = r
                       /\ last'.result \in {"throw", "TypeError"}
                  ELSE reqs[r].promise = "rejected"]_vars

\* A request that waits forever was resolved by a reply delivered later.
C3_Witness ==
    \E r \in DOMAIN reqs :
        /\ Negative(reqs[r].arg)
        /\ reqs[r].promise = "resolved"
        /\ last.op = "deliver"
        /\ last.id = reqs[r].id

\* C4: the message of every request with timeout 0, sendMessageOneWay
\* included, has been handed to emitterObj.send on 'message-request' exactly
\* once, and at no time does the request have a listener or a timer.
C4_HandedOverOnce ==
    \A r \in DOMAIN reqs :
        reqs[r].arg = Num(0) =>
            /\ Transmissions(sent, reqs[r]) = 1
            /\ \A i \in DOMAIN sent :
                  sent[i].id = reqs[r].id => sent[i].channel = "message-request"
            /\ ~reqs[r].listening
            /\ reqs[r].timerState = "none"
            /\ reqs[r].timerVar = NULL

\* A request with timeout 0 whose message went out.
C4_Witness ==
    \E r \in DOMAIN reqs :
        /\ reqs[r].arg = Num(0)
        /\ Transmissions(sent, reqs[r]) = 1
        /\ ~reqs[r].listening
        /\ reqs[r].timerState = "none"

\* C5 as stated: the completion of a request with timeout 0 whose message
\* was handed to the transport is resolved.
C5_ResolvedImmediately ==
    \A r \in DOMAIN reqs :
        (reqs[r].arg = Num(0) /\ Transmissions(sent, reqs[r]) = 1) =>
            reqs[r].promise = "resolved"

\* C5 amended: the completion of a request with timeout 0 is never resolved.
\* When its call returns without throwing it is pending and stays pending in
\* every later state; otherwise it is rejected by its call.
C5_NeverResolved ==
    [][\A r \in DOMAIN reqs' :
          reqs'[r].arg = Num(0) =>
            /\ reqs'[r].resolveCalls = 0
            /\ reqs'[r].promise # "resolved"
            /\ IF Created(r)
               THEN reqs'[r].promise =
                        IF last'.result \in {"ok", "reply"} THEN "pending" ELSE "rejected"
               ELSE reqs'[r].promise = reqs[r].promise]_vars

\* A reply tagged with the identifier of a request with timeout 0 was
\* delivered, and the completion is still pending.
C5_Witness ==
    \E r \in DOMAIN reqs :
        /\ reqs[r].arg = Num(0)
        /\ Transmissions(sent, reqs[r]) = 1
        /\ reqs[r].promise = "pending"
        /\ last.op = "deliver"
        /\ last.id = reqs[r].id

\* C6: the promise sendMessageOneWay returns is never settled, whether
\* emitterObj.send returned or threw.
C6_NoCompletionSignal ==
    \A r \in DOMAIN reqs :
        (reqs[r].arg = Num(0) /\ Transmissions(sent, reqs[r]) = 1) =>
            reqs[r].promise = "pending"

\* The request is past its life: sent one-way, expired, or fulfilled.
Inert(q) == q.arg = Num(0) \/ q.timerState = "fired" \/ q.resolveCalls >= 1

\* C7: a reply whose identifier belongs to no request, or only to requests
\* that were sent one-way, have expired or were fulfilled, changes nothing:
\* no completion, no listener, no timer, and nothing is thrown.
C7_LateReplyDropped ==
    [][(/\ last'.op = "deliver"
        /\ \A r \in DOMAIN reqs : reqs[r].id = last'.id => Inert(reqs[r]))
          => /\ reqs' = reqs
             /\ last'.result = "ok"
             /\ UNCHANGED <<seed, emitterObj, listenerObj, subs, sent>>]_vars

\* A reply arrived for a request that had timed out.
C7_Witness ==
    \E r \in DOMAIN reqs :
        /\ last.op = "deliver"
        /\ last.id = reqs[r].id
        /\ reqs[r].timerState = "fired"
        /\ reqs[r].value = "Timed out"

\* C8: no two calls produce the same identifier, although they read the same
\* timestamp, so no two listeners are registered under one identifier and no
\* two messages handed to the transport carry the same one.
C8_UniqueIds ==
    /\ \A i, j \in DOMAIN reqs : i # j => reqs[i].id # reqs[j].id
    /\ \A i, j \in DOMAIN sent : i # j => sent[i].id # sent[j].id
    /\ \A r \in DOMAIN reqs : \E t \in Timestamps : reqs[r].id = MsgId(r, t)

\* Two requests made in the same millisecond both await their reply.
C8_Witness ==
    /\ Len(reqs) >= 2
    /\ reqs[1].listening
    /\ reqs[2].listening

\* C9: once initMessaging has succeeded, every further call throws 'Already
\* initialized' and changes neither listenerObj nor emitterObj nor the
\* subscriptions to 'message-request', of which there is one.
C9_SecondInitRejected ==
    [][(emitterObj # NULL /\ last'.op = "init")
          => /\ last'.result = "AlreadyInitialized"
             /\ Len(subs') = 1
             /\ UNCHANGED <<listenerObj, emitterObj, subs, seed, reqs, sent>>]_vars

\* initMessaging was called on initialized state.
C9_Witness ==
    /\ last.op = "init"
    /\ last.result = "AlreadyInitialized"
    /\ emitterObj # NULL
    /\ Len(subs) = 1

\* C10: on uninitialized state, initMessaging without a listener or without
\* a callback throws 'Invalid parameters' and stores nothing, whether or not
\* an emitter is given; with both it succeeds, whatever calls failed before.
C10_InvalidParametersKeepUninitialized ==
    [][(emitterObj = NULL /\ last'.op = "init")
          => IF last'.args[1] = NULL \/ last'.args[3] = NULL
             THEN /\ last'.result = "InvalidParameters"
                  /\ listenerObj' = NULL
                  /\ emitterObj' = NULL
                  /\ subs' = <<>>
             ELSE /\ last'.result = "ok"
                  /\ listenerObj' = last'.args[1]
                  /\ emitterObj' # NULL
                  /\ subs' = <<<<last'.args[1], last'.args[3]>>>>]_vars

\* initMessaging failed for a call that gave an emitter but no listener.
C10_Witness ==
    /\ last.op = "init"
    /\ last.result = "InvalidParameters"
    /\ last.args[1] = NULL
    /\ last.args[2] # NULL
    /\ emitterObj = NULL

\* C11: once initMessaging has succeeded there is one subscription to
\* 'message-request', and a message delivered on that channel of the
\* listener calls the callback once, with (message.action, message.data,
\* event, message.id), and touches neither the requests nor seed.
C11_InboundDispatchedOnce ==
    [][(/\ last'.op = "inbound"
        /\ emitterObj # NULL
        /\ last'.args[1] = listenerObj)
          => /\ Len(subs) = 1
             /\ cbCalls' = <<[callback |-> subs[1][2], action |-> last'.args[3],
                              data |-> last'.args[4], event |-> last'.args[2],
                              id |-> last'.id]>>
             /\ UNCHANGED <<seed, emitterObj, listenerObj, subs, reqs, sent>>]_vars

\* A request was delivered, and dispatched to the callback, while a request
\* of this side awaited its reply.
C11_Witness ==
    /\ last.op = "inbound"
    /\ Len(cbCalls) = 1
    /\ cbCalls[1].callback = "cb1"
    /\ cbCalls[1].event = "evReply"
    /\ \E r \in DOMAIN reqs : reqs[r].listening

\* The message of q was handed to the transport and q expects a reply.
AwaitsReply(q) == q.arg # Num(0) /\ Transmissions(sent, q) = 1

\* C12: a request that expects a reply has its listener registered when its
\* message is handed to emitterObj.send. A reply the transport delivers
\* inside send resolves it, and so does a reply delivered at any later time
\* at which it is still pending; until then it stays registered.
C12_RegisteredBeforeSend ==
    [][\A r \in DOMAIN reqs' :
          (reqs'[r].arg # Num(0) /\ Transmissions(sent', reqs'[r]) = 1) =>
            /\ (Created(r) /\ last'.result = "reply") =>
                  /\ reqs'[r].promise = "resolved"
                  /\ <<reqs'[r].value>> = last'.args
                  /\ reqs'[r].resolveCalls = 1
            /\ reqs'[r].promise = "pending" => reqs'[r].listening
            /\ (~Created(r) /\ reqs[r].promise = "pending"
                  /\ last'.op = "deliver" /\ last'.id = reqs[r].id) =>
                  /\ reqs'[r].promise = "resolved"
                  /\ <<reqs'[r].value>> = last'.args]_vars

\* The transport delivered the reply before send returned, and the request
\* was resolved with it.
C12_Witness ==
    /\ last.op = "send"
    /\ last.result = "reply"
    /\ AwaitsReply(reqs[last.r])
    /\ reqs[last.r].promise = "resolved"
    /\ <<reqs[last.r].value>> = last.args

\* C13: a reply settles and unregisters only the request whose identifier it
\* carries, and the expiry of a timer only the request it was armed for;
\* every other request keeps its listener, its timer and its completion,
\* in whatever order replies and expiries come.
C13_MatchedByIdentifier ==
    [][/\ last'.op = "deliver" =>
            \A r \in DOMAIN reqs :
                IF reqs[r].id = last'.id
                THEN (reqs[r].listening /\ reqs[r].promise = "pending") =>
                        /\ reqs'[r].promise = "resolved"
                        /\ ~reqs'[r].listening
                        /\ reqs'[r].timerState # "armed"
                ELSE reqs'[r] = reqs[r]
       /\ last'.op = "timer" =>
            \A r \in DOMAIN reqs :
                IF r = last'.r
                THEN /\ ~reqs'[r].listening
                     /\ reqs'[r].timerState = "fired"
                     /\ (reqs[r].promise = "pending" /\ listenerObj # NULL) =>
                            reqs'[r].promise = "rejected"
                ELSE reqs'[r] = reqs[r]
       /\ last'.op = "send" =>
            \A r \in DOMAIN reqs : reqs'[r] = reqs[r]]_vars

\* Of two requests in flight the later one was answered first: it is
\* resolved and the earlier one still waits, its timer armed.
C13_Witness ==
    /\ Len(reqs) >= 2
    /\ last.op = "deliver"
    /\ last.id = reqs[2].id
    /\ reqs[2].promise = "resolved"
    /\ reqs[1].promise = "pending"
    /\ reqs[1].listening
    /\ reqs[1].timerState = "armed"

\* The characters of the strings of the model.
Chars(str) ==
    CASE str = "Timed out" -> <<"T", "i", "m", "e", "d", " ", "o", "u", "t">>
      [] str = "ping" -> <<"p", "i", "n", "g">>
      [] OTHER -> <<str>>

\* part occurs in text.
Mentions(text, part) ==
    \E i \in 1..(Len(text) - Len(part) + 1) :
        SubSeq(text, i, i + Len(part) - 1) = part

\* C14: the value a timed-out request is rejected with carries the action
\* name and the identifier of the request.
C14_TimedOutCarriesActionAndId ==
    \A r \in DOMAIN reqs :
        (reqs[r].timerState = "fired" /\ reqs[r].promise = "rejected"
            /\ reqs[r].rejectCalls = 1 /\ reqs[r].value = "Timed out") =>
            /\ Mentions(Chars(reqs[r].value), Chars(reqs[r].action))
            /\ Mentions(Chars(reqs[r].value), reqs[r].id)

\* C15: sendMessageReply hands the reply over on one path: event.reply when
\* the event has a reply method, emitterObj.send otherwise; either way under
\* the identifier and with the data it was given, and it changes neither the
\* requests nor seed.
C15_ReplyOverOnePath ==
    [][last'.op = "reply"
          => /\ replied' = [via |-> IF last'.args[2] = "evReply"
                                    THEN "event" ELSE "emitter",
                            id |-> last'.id, data |-> last'.args[1]]
             /\ last'.result = "ok"
             /\ UNCHANGED <<seed, emitterObj, listenerObj, subs, reqs, sent>>]_vars

\* A reply to an event without a reply method went over emitterObj while a
\* request of this side awaited its own reply.
C15_Witness ==
    /\ last.op = "reply"
    /\ last.args[2] = "evPlain"
    /\ replied.via = "emitter"
    /\ replied.id = ForeignId
    /\ \E r \in DOMAIN reqs : reqs[r].listening

\* C16: timeout 0 makes the request one-way (no listener, no timer); a
\* negative timeout leaves it without a timer; an absent timeout arms a
\* timer of 2000; a positive timeout t arms a timer of t.
C16_TimeoutClasses ==
    [][\A r \in DOMAIN reqs' :
          Created(r) =>
            LET q == reqs'[r]
                a == q.arg
            IN  CASE a = Num(0) ->
                        /\ q.timerState = "none"
                        /\ q.timerVar = NULL
                        /\ ~q.listening
                  [] a.given /\ a.val < 0 ->
                        /\ q.timerState = "none"
                        /\ q.timerVar = NULL
                        /\ (last'.result = "ok" => q.listening)
                  [] ~a.given ->
                        /\ q.timerVar = "handle"
                        /\ q.timerState \in {"armed", "cleared"}
                        /\ q.timerState = "cleared" <=> last'.result = "reply"
                        /\ q.timeout = 2000
                  [] a.given /\ a.val > 0 ->
                        /\ q.timerVar = "handle"
                        /\ q.timerState \in {"armed", "cleared"}
                        /\ q.timerState = "cleared" <=> last'.result = "reply"
                        /\ q.timeout = a.val]_vars

\* One request was made without a timeout and one with timeout 5; both
\* timers are armed, for 2000 and for 5.
C16_Witness ==
    \E r, k \in DOMAIN reqs :
        /\ reqs[r].arg = Absent
        /\ reqs[r].timerState = "armed"
        /\ reqs[r].timeout = 2000
        /\ reqs[k].arg = Num(5)
        /\ reqs[k].timerState = "armed"
        /\ reqs[k].timeout = 5

\* C17: a reply for a request that is pending and registered resolves it
\* with the payload of the reply, removes its listener and cancels its
\* timer; the timer of a request that was answered never fires.
C17_ReplyFulfils ==
    [][/\ last'.op = "deliver" =>
            \A r \in DOMAIN reqs :
                (reqs[r].id = last'.id /\ reqs[r].listening
                    /\ reqs[r].promise = "pending") =>
                    /\ reqs'[r].promise = "resolved"
                    /\ <<reqs'[r].value>> = last'.args
                    /\ reqs'[r].resolveCalls = 1
                    /\ ~reqs'[r].listening
                    /\ reqs'[r].timerState =
                          IF reqs[r].timerState = "armed" THEN "cleared"
                          ELSE reqs[r].timerState
       /\ \A r \in DOMAIN reqs :
            reqs[r].resolveCalls >= 1 =>
                /\ reqs[r].timerState \in {"none", "cleared"}
                /\ reqs'[r].timerState = reqs[r].timerState]_vars

\* A request with an armed timer was answered with p2.
C17_Witness ==
    \E r \in DOMAIN reqs :
        /\ last.op = "deliver"
        /\ last.id = reqs[r].id
        /\ last.args = <<"p2">>
        /\ reqs[r].promise = "resolved"
        /\ reqs[r].value = "p2"
        /\ reqs[r].timerState = "cleared"
        /\ ~reqs[r].listening

\* The timeout argument asks for a finite wait.
FiniteWait(timeout) == ~timeout.given \/ timeout.val > 0

\* C18: when armed timers eventually fire, every request made with a finite
\* wait is eventually settled, with no listener registered and no timer
\* armed for it.
C18_FiniteWaitEnds ==
    \A r \in 1..MaxCalls :
        (r \in DOMAIN reqs /\ FiniteWait(reqs[r].arg))
            ~> (/\ r \in DOMAIN reqs
                /\ reqs[r].promise # "pending"
                /\ ~reqs[r].listening
                /\ reqs[r].timerState # "armed")

\* A request with a finite wait got no reply and was ended by its timer.
C18_Witness ==
    \E r \in DOMAIN reqs :
        /\ FiniteWait(reqs[r].arg)
        /\ reqs[r].timerState = "fired"
        /\ reqs[r].promise = "rejected"
        /\ reqs[r].value = "Timed out"
        /\ ~reqs[r].listening

\* C19: a sendMessageRequest call made while the module is not initialized
\* transmits nothing, registers no listener, leaves no timer armed and
\* consumes one sequence number; its promise is rejected.
C19_NothingLeftBeforeInit ==
    [][(last'.op = "send" /\ emitterObj = NULL) =>
          LET q == reqs'[last'.r]
          IN  /\ q.promise = "rejected"
              /\ sent' = sent
              /\ ~q.listening
              /\ q.timerState # "armed"
              /\ seed' = seed + 1]_vars

\* C20: a request is registered only while its promise is pending: a request
\* whose promise is settled, the one whose emitterObj.send threw included,
\* has neither a listener registered nor a timer armed.
C20_NothingLeftAfterFailedSend ==
    \A r \in DOMAIN reqs :
        reqs[r].promise # "pending" =>
            ~reqs[r].listening /\ reqs[r].timerState # "armed"

====
